---- MODULE Spec2Model ----
(***************************************************************************)
(* Task Management API (app/): bearer-token gate, task CRUD over a          *)
(* relational store, and the AI suggestion workflow.                        *)
(*                                                                          *)
(* Optional[T] values are sets of at most one element: {} is None.          *)
(* Strings that the code splits or strips (the Authorization header, the    *)
(* credential file, the provider's reply) are sequences of tokens, a token  *)
(* being a word or a run of whitespace.                                     *)
(***************************************************************************)
EXTENDS Integers, Sequences, FiniteSets, TLC

VARIABLES users, tasks, heap, nextTaskId, suggestions, nextSuggestionId, req, resp,
          created_at, updated_at, now, suggesting, deleting

vars == <<users, tasks, heap, nextTaskId, suggestions, nextSuggestionId, req, resp,
          created_at, updated_at, now, suggesting, deleting>>

store == <<users, tasks, heap, nextTaskId, suggestions, nextSuggestionId,
           created_at, updated_at>>

----------------------------------------------------------------------------
(* Bounds of the model *)

MaxTasks == 2
MaxSuggestions == 2
MaxWindow == 2
MaxRichTasks == 1
MaxRichSuggestions == 1
MaxClock == 2

----------------------------------------------------------------------------
(* Optional values and strings *)

None == {}

Some(x) == {x}

Val(o) == CHOOSE x \in o : TRUE

Whitespace == {" ", "\n"}

RECURSIVE lstrip(_)
lstrip(s) == IF s # <<>> /\ Head(s) \in Whitespace THEN lstrip(Tail(s)) ELSE s

RECURSIVE rstrip(_)
rstrip(s) ==
  IF s # <<>> /\ s[Len(s)] \in Whitespace THEN rstrip(SubSeq(s, 1, Len(s) - 1)) ELSE s

\* str.strip(): leading and trailing whitespace removed
strip(s) == rstrip(lstrip(s))

IsWord(t) == t \notin Whitespace

\* str.split(): the words between runs of whitespace
split(s) == SelectSeq(s, IsWord)

\* str.lower() on the scheme words the model sends
lower(w) == IF w \in {"Bearer", "bearer", "BEARER"} THEN "bearer"
            ELSE IF w = "Basic" THEN "basic" ELSE w

----------------------------------------------------------------------------
(* Settings and the access gate *)

api_auth_token == "default_token"

HTTP_200_OK == 200
HTTP_201_CREATED == 201
HTTP_204_NO_CONTENT == 204
HTTP_401_UNAUTHORIZED == 401
HTTP_404_NOT_FOUND == 404
HTTP_422_UNPROCESSABLE_ENTITY == 422
HTTP_500_INTERNAL_SERVER_ERROR == 500

\* verify_token with the token comparison left out
verify_token_no_compare(authorization) ==
  IF authorization = None THEN HTTP_401_UNAUTHORIZED
  ELSE LET parts == split(Val(authorization)) IN
       IF Len(parts) # 2 \/ lower(parts[1]) # "bearer" THEN HTTP_401_UNAUTHORIZED
       ELSE HTTP_200_OK

\* verify_token: 401 when the gate raises, 200 when the request proceeds
verify_token(authorization) ==
  IF authorization = None THEN HTTP_401_UNAUTHORIZED
  ELSE LET parts == split(Val(authorization)) IN
       IF Len(parts) # 2 \/ lower(parts[1]) # "bearer" THEN HTTP_401_UNAUTHORIZED
       ELSE IF parts[2] # api_auth_token THEN HTTP_401_UNAUTHORIZED
       ELSE HTTP_200_OK

----------------------------------------------------------------------------
(* The relational store (models.py) behind a Session.  db is the record     *)
(* [users, tasks, heap, nextTaskId, suggestions, nextSuggestionId,          *)
(* created_at, updated_at, now]: tasks and suggestions map primary keys to  *)
(* rows, heap is the order in which a query without ORDER BY scans the      *)
(* tasks table, the two counters are the primary-key sequences, created_at  *)
(* and updated_at are the two timestamp columns of the tasks table (an      *)
(* Optional time per task) and now is what the store's now() returns.       *)

\* id of the user that initialize_database inserts into the empty users table
default_user_id == 1

\* get_user: the user's id, or None
get_user(db, user_id) == IF user_id \in db.users THEN Some(user_id) ELSE None

\* get_task: the task's id, or None
get_task(db, task_id) == IF task_id \in DOMAIN db.tasks THEN Some(task_id) ELSE None

\* Python truthiness of an Optional[int] / Optional[str]
truthy_int(o) == o # None /\ Val(o) # 0

truthy_str(o) == o # None /\ Val(o) # ""

\* The constraints of the tasks table a commit checks: title NOT NULL,
\* assignee_id REFERENCES users.id
task_row_ok(db, row) ==
  /\ row.title # None
  /\ row.assignee_id = None \/ Val(row.assignee_id) \in db.users

\* the ai_suggestions table without the foreign key on task_id
suggestion_row_ok_no_foreign_key(db, row) ==
  /\ row.suggestion_text # None

\* The constraints of the ai_suggestions table: suggestion_text NOT NULL,
\* task_id NOT NULL REFERENCES tasks.id
suggestion_row_ok(db, row) ==
  /\ row.suggestion_text # None
  /\ row.task_id \in DOMAIN db.tasks

\* Query.offset(skip).limit(limit).all() over a scan order; the store rejects
\* a negative OFFSET or LIMIT
offset_limit(rows, skip, limit) ==
  IF skip < 0 \/ limit < 0 THEN [rows |-> <<>>, raised |-> TRUE]
  ELSE [rows |-> SubSeq(rows, skip + 1,
                         IF skip + limit < Len(rows) THEN skip + limit ELSE Len(rows)),
        raised |-> FALSE]

\* get_tasks: no ORDER BY, so the rows come in scan order
get_tasks(db, skip, limit) == offset_limit(db.heap, skip, limit)

remove(seq, x) == SelectSeq(seq, LAMBDA y : y # x)

\* TaskCreate accepts the body: title is a required str (any str, the empty
\* one included); the other fields are Optional
TaskCreate_validates(body) == "title" \in body.fields_set /\ body.title # None

\* TaskCreate: the request body with the schema's defaults for absent fields
TaskCreate(body) ==
  [title |-> body.title,
   assignee_id |-> IF "assignee_id" \in body.fields_set THEN body.assignee_id ELSE None,
   description |-> IF "description" \in body.fields_set THEN body.description ELSE None,
   status |-> IF "status" \in body.fields_set THEN body.status ELSE Some("pending")]

\* TaskUpdate: every field defaults to None; fields_set is model_fields_set
TaskUpdate(body) ==
  [title |-> IF "title" \in body.fields_set THEN body.title ELSE None,
   assignee_id |-> IF "assignee_id" \in body.fields_set THEN body.assignee_id ELSE None,
   fields_set |-> body.fields_set,
   description |-> IF "description" \in body.fields_set THEN body.description ELSE None,
   status |-> IF "status" \in body.fields_set THEN body.status ELSE None]

\* create_task: the INSERT draws the next primary key, then the commit either
\* stores the row or raises an integrity error and stores nothing.  The
\* INSERT names neither timestamp column: created_at takes its server default
\* now(), updated_at has no default and stays NULL
create_task(db, task) ==
  LET db_task == [title |-> task.title,
                  assignee_id |-> task.assignee_id,
                  description |-> task.description,
                  status |-> IF truthy_str(task.status) THEN task.status ELSE Some("pending")]
      id == db.nextTaskId
      drawn == [db EXCEPT !.nextTaskId = id + 1]
  IN IF task_row_ok(db, db_task)
     THEN [db |-> [drawn EXCEPT !.tasks = [i \in DOMAIN db.tasks \cup {id} |->
                                             IF i = id THEN db_task ELSE db.tasks[i]],
                                !.heap = Append(db.heap, id),
                                !.created_at = [i \in DOMAIN db.tasks \cup {id} |->
                                                  IF i = id THEN Some(db.now)
                                                  ELSE db.created_at[i]],
                                !.updated_at = [i \in DOMAIN db.tasks \cup {id} |->
                                                  IF i = id THEN None
                                                  ELSE db.updated_at[i]]],
           raised |-> FALSE, id |-> Some(id)]
     ELSE [db |-> drawn, raised |-> TRUE, id |-> None]

\* the setattr loop over model_dump() without exclude_unset
apply_update_all(row, task_update) == [f \in DOMAIN row |-> task_update[f]]

\* model_dump(exclude_unset=True) followed by the setattr loop
apply_update(row, task_update) ==
  [f \in DOMAIN row |-> IF f \in task_update.fields_set THEN task_update[f] ELSE row[f]]

\* update_task with an UPDATE statement emitted at every commit
update_task_always_emits(db, task_id, task_update, moved) ==
  IF get_task(db, task_id) = None THEN [db |-> db, raised |-> FALSE, id |-> None]
  ELSE LET row == apply_update(db.tasks[task_id], task_update) IN
       IF ~task_row_ok(db, row) THEN [db |-> db, raised |-> TRUE, id |-> None]
       ELSE [db |-> [db EXCEPT !.tasks[task_id] = row,
                               !.heap = IF moved /\ row # db.tasks[task_id]
                                        THEN Append(remove(db.heap, task_id), task_id)
                                        ELSE db.heap,
                               !.updated_at[task_id] = Some(db.now)],
             raised |-> FALSE, id |-> Some(task_id)]

\* update_task: moved says whether the rewritten row lands at the end of the
\* scan order (the store decides; an unchanged row is not rewritten).  The
\* session emits an UPDATE only for attributes whose value changed, and the
\* onupdate now() of updated_at is part of that statement only
update_task(db, task_id, task_update, moved) ==
  IF get_task(db, task_id) = None THEN [db |-> db, raised |-> FALSE, id |-> None]
  ELSE LET row == apply_update(db.tasks[task_id], task_update) IN
       IF ~task_row_ok(db, row) THEN [db |-> db, raised |-> TRUE, id |-> None]
       ELSE [db |-> [db EXCEPT !.tasks[task_id] = row,
                               !.heap = IF moved /\ row # db.tasks[task_id]
                                        THEN Append(remove(db.heap, task_id), task_id)
                                        ELSE db.heap,
                               !.updated_at[task_id] = IF row # db.tasks[task_id]
                                                       THEN Some(db.now)
                                                       ELSE db.updated_at[task_id]],
             raised |-> FALSE, id |-> Some(task_id)]

\* Task.suggestions: the suggestion rows of a task
suggestions_of(db, task_id) ==
  {s \in DOMAIN db.suggestions : db.suggestions[s].task_id = task_id}

\* delete_task reporting success for a task that does not exist
delete_task_always_true(db, task_id) ==
  [db |-> [db EXCEPT !.tasks = [i \in DOMAIN db.tasks \ {task_id} |-> db.tasks[i]],
                     !.heap = remove(db.heap, task_id),
                     !.created_at = [i \in DOMAIN db.tasks \ {task_id} |-> db.created_at[i]],
                     !.updated_at = [i \in DOMAIN db.tasks \ {task_id} |-> db.updated_at[i]],
                     !.suggestions = [s \in DOMAIN db.suggestions \ suggestions_of(db, task_id)
                                        |-> db.suggestions[s]]],
   success |-> TRUE]

\* delete_task without the cascade to the suggestions
delete_task_no_cascade(db, task_id) ==
  IF get_task(db, task_id) = None THEN [db |-> db, success |-> FALSE]
  ELSE [db |-> [db EXCEPT !.tasks = [i \in DOMAIN db.tasks \ {task_id} |-> db.tasks[i]],
                          !.heap = remove(db.heap, task_id),
                          !.created_at = [i \in DOMAIN db.tasks \ {task_id} |-> db.created_at[i]],
                          !.updated_at = [i \in DOMAIN db.tasks \ {task_id} |-> db.updated_at[i]]],
        success |-> TRUE]

\* delete_task: the delete cascades to the task's suggestions
delete_task(db, task_id) ==
  IF get_task(db, task_id) = None THEN [db |-> db, success |-> FALSE]
  ELSE [db |-> [db EXCEPT !.tasks = [i \in DOMAIN db.tasks \ {task_id} |-> db.tasks[i]],
                          !.heap = remove(db.heap, task_id),
                          !.created_at = [i \in DOMAIN db.tasks \ {task_id} |-> db.created_at[i]],
                          !.updated_at = [i \in DOMAIN db.tasks \ {task_id} |-> db.updated_at[i]],
                          !.suggestions = [s \in DOMAIN db.suggestions \ suggestions_of(db, task_id)
                                             |-> db.suggestions[s]]],
        success |-> TRUE]

\* create_ai_suggestion
create_ai_suggestion(db, suggestion_text, task_id) ==
  LET row == [task_id |-> task_id, suggestion_text |-> suggestion_text]
      id == db.nextSuggestionId
      drawn == [db EXCEPT !.nextSuggestionId = id + 1]
  IN IF suggestion_row_ok(db, row)
     THEN [db |-> [drawn EXCEPT !.suggestions = [s \in DOMAIN db.suggestions \cup {id} |->
                                                   IF s = id THEN row ELSE db.suggestions[s]]],
           raised |-> FALSE, id |-> Some(id)]
     ELSE [db |-> drawn, raised |-> TRUE, id |-> None]

----------------------------------------------------------------------------
(* The suggestion client (ai_connector.py).  provider is what the world     *)
(* outside the process does during one call: the credential file            *)
(* [exists, readable, content], whether constructing the OpenAI client      *)
(* raises, and the outcome of chat.completions.create: "ok" with the        *)
(* message content, "OpenAIError", or "Exception".                          *)

FALLBACK_UNAVAILABLE == <<"Optimize this task for better efficiency. (AI unavailable)">>

FALLBACK_API_ERROR == <<"Could not generate AI suggestion due to an API error.">>

FALLBACK_UNEXPECTED == <<"An unexpected error occurred while generating the suggestion.">>

\* get_openai_api_key: None when the file is missing, unreadable or blank
get_openai_api_key(key_file) ==
  IF ~key_file.exists THEN None
  ELSE IF ~key_file.readable THEN None
  ELSE LET api_key == strip(key_file.content) IN
       IF api_key = <<>> THEN None ELSE Some(api_key)

\* get_openai_client: the constructor runs outside any try block
get_openai_client(provider) ==
  LET api_key == get_openai_api_key(provider.key_file) IN
  IF api_key # None
  THEN IF provider.construct_raises THEN [raised |-> TRUE, client |-> None]
       ELSE [raised |-> FALSE, client |-> api_key]
  ELSE [raised |-> FALSE, client |-> None]

\* generate_ai_suggestion: raised, or the returned value (Optional[str])
generate_ai_suggestion(task_title, task_description, provider) ==
  LET c == get_openai_client(provider) IN
  IF c.raised THEN [raised |-> TRUE, value |-> None]
  ELSE IF c.client = None THEN [raised |-> FALSE, value |-> Some(FALLBACK_UNAVAILABLE)]
  ELSE IF provider.call = "ok"
       THEN IF provider.content = None
            THEN [raised |-> FALSE, value |-> Some(FALLBACK_UNEXPECTED)]
            ELSE [raised |-> FALSE, value |-> Some(strip(Val(provider.content)))]
  ELSE IF provider.call = "OpenAIError"
       THEN [raised |-> FALSE, value |-> Some(FALLBACK_API_ERROR)]
  ELSE [raised |-> FALSE, value |-> Some(FALLBACK_UNEXPECTED)]

----------------------------------------------------------------------------
(* The routes (routes.py).  A handler maps the store and its inputs to the  *)
(* store afterwards and the response [status_code, tasks, suggestions, ai]: *)
(* tasks and suggestions are the entities of the response body, ai is what  *)
(* the handler got from the suggestion client.                              *)

NoCall == [raised |-> FALSE, value |-> None, called |-> FALSE]

\* schemas.Task built from the row and its relationships
task_out(db, id) ==
  [suggestions |-> suggestions_of(db, id),
   created_at |-> db.created_at[id],
   updated_at |-> db.updated_at[id],
   title |-> db.tasks[id].title,
   assignee_id |-> db.tasks[id].assignee_id,
   description |-> db.tasks[id].description,
   status |-> db.tasks[id].status,
   id |-> id,
   assignee |-> IF db.tasks[id].assignee_id = None THEN None
                ELSE get_user(db, Val(db.tasks[id].assignee_id))]

\* schemas.AISuggestion built from the row
suggestion_out(db, id) ==
  [task_id |-> db.suggestions[id].task_id,
   suggestion_text |-> db.suggestions[id].suggestion_text,
   id |-> id]

\* an HTTPException, or an exception the handler does not catch (500)
error(db, code) ==
  [resp |-> [tasks |-> <<>>, suggestions |-> <<>>, status_code |-> code, ai |-> NoCall],
   db |-> db]

task_response(db, code, ids) ==
  [resp |-> [tasks |-> [k \in DOMAIN ids |-> task_out(db, ids[k])],
             suggestions |-> <<>>, status_code |-> code, ai |-> NoCall],
   db |-> db]

\* POST /tasks/
create_new_task(db, body) ==
  LET task == TaskCreate(body) IN
  IF truthy_int(task.assignee_id) /\ get_user(db, Val(task.assignee_id)) = None
  THEN error(db, HTTP_404_NOT_FOUND)
  ELSE LET created == create_task(db, task) IN
       IF created.raised THEN error(created.db, HTTP_500_INTERNAL_SERVER_ERROR)
       ELSE task_response(created.db, HTTP_201_CREATED, <<Val(created.id)>>)

\* GET /tasks/{task_id}
read_task(db, task_id) ==
  IF get_task(db, task_id) = None THEN error(db, HTTP_404_NOT_FOUND)
  ELSE task_response(db, HTTP_200_OK, <<task_id>>)

\* update_existing_task testing the assignee id for truth, as create_new_task does
update_existing_task_truthy(db, task_id, body, moved) ==
  LET task_update == TaskUpdate(body) IN
  IF truthy_int(task_update.assignee_id) /\ get_user(db, Val(task_update.assignee_id)) = None
  THEN error(db, HTTP_404_NOT_FOUND)
  ELSE LET updated == update_task(db, task_id, task_update, moved) IN
       IF updated.raised THEN error(updated.db, HTTP_500_INTERNAL_SERVER_ERROR)
       ELSE IF updated.id = None THEN error(updated.db, HTTP_404_NOT_FOUND)
       ELSE task_response(updated.db, HTTP_200_OK, <<task_id>>)

\* PUT /tasks/{task_id}
update_existing_task(db, task_id, body, moved) ==
  LET task_update == TaskUpdate(body) IN
  IF task_update.assignee_id # None /\ get_user(db, Val(task_update.assignee_id)) = None
  THEN error(db, HTTP_404_NOT_FOUND)
  ELSE LET updated == update_task(db, task_id, task_update, moved) IN
       IF updated.raised THEN error(updated.db, HTTP_500_INTERNAL_SERVER_ERROR)
       ELSE IF updated.id = None THEN error(updated.db, HTTP_404_NOT_FOUND)
       ELSE task_response(updated.db, HTTP_200_OK, <<task_id>>)

\* DELETE /tasks/{task_id}
delete_existing_task(db, task_id) ==
  LET deleted == delete_task(db, task_id) IN
  IF ~deleted.success THEN error(deleted.db, HTTP_404_NOT_FOUND)
  ELSE task_response(deleted.db, HTTP_204_NO_CONTENT, <<>>)

\* POST /tasks/{task_id}/suggestions
create_task_suggestion(db, task_id, provider) ==
  IF get_task(db, task_id) = None THEN error(db, HTTP_404_NOT_FOUND)
  ELSE LET got == generate_ai_suggestion(db.tasks[task_id].title,
                                         db.tasks[task_id].description, provider)
           ai == [raised |-> got.raised, value |-> got.value, called |-> TRUE]
       IN IF got.raised
          THEN [resp |-> [error(db, HTTP_500_INTERNAL_SERVER_ERROR).resp EXCEPT !.ai = ai],
                db |-> db]
          ELSE IF got.value = None
          THEN [resp |-> [error(db, HTTP_500_INTERNAL_SERVER_ERROR).resp EXCEPT !.ai = ai],
                db |-> db]
          ELSE LET saved == create_ai_suggestion(db, got.value, task_id) IN
               IF saved.raised
               THEN [resp |-> [error(db, HTTP_500_INTERNAL_SERVER_ERROR).resp EXCEPT !.ai = ai],
                     db |-> saved.db]
               ELSE [resp |-> [tasks |-> <<>>,
                               suggestions |-> <<suggestion_out(saved.db, Val(saved.id))>>,
                               status_code |-> HTTP_201_CREATED,
                               ai |-> ai],
                     db |-> saved.db]

\* GET /tasks/
read_tasks(db, skip, limit) ==
  LET got == get_tasks(db, skip, limit) IN
  IF got.raised THEN error(db, HTTP_500_INTERNAL_SERVER_ERROR)
  ELSE task_response(db, HTTP_200_OK, got.rows)

----------------------------------------------------------------------------
(* The application: every route of the router depends on verify_token       *)

DB == [users |-> users, tasks |-> tasks, heap |-> heap, nextTaskId |-> nextTaskId,
       suggestions |-> suggestions, nextSuggestionId |-> nextSuggestionId,
       created_at |-> created_at, updated_at |-> updated_at, now |-> now]

NoBody == [title |-> None, assignee_id |-> None, fields_set |-> {},
           description |-> None, status |-> None]

NoProvider == [key_file |-> [exists |-> FALSE, readable |-> FALSE, content |-> <<>>],
               content |-> None, construct_raises |-> FALSE, call |-> "ok"]

Request(op, authorization, path_id, body, skip, limit, provider) ==
  [authorization |-> authorization, skip |-> skip, limit |-> limit, body |-> body,
   provider |-> provider, op |-> op, path_id |-> path_id]

\* APIRouter(prefix="/tasks", dependencies=[Depends(verify_token)]): the gate
\* runs first, then the body is validated against the route's schema (a
\* rejected body answers 422), then the route's handler runs
router(db, request, moved) ==
  IF verify_token(request.authorization) = HTTP_401_UNAUTHORIZED
  THEN error(db, HTTP_401_UNAUTHORIZED)
  ELSE CASE request.op = "create" ->
              IF TaskCreate_validates(request.body)
              THEN create_new_task(db, request.body)
              ELSE error(db, HTTP_422_UNPROCESSABLE_ENTITY)
         [] request.op = "read" -> read_task(db, request.path_id)
         [] request.op = "update" ->
              update_existing_task(db, request.path_id, request.body, moved)
         [] request.op = "delete" -> delete_existing_task(db, request.path_id)
         [] request.op = "suggest" ->
              create_task_suggestion(db, request.path_id, request.provider)
         [] request.op = "list" -> read_tasks(db, request.skip, request.limit)

\* The two requests that the model also serves step by step, each in a
\* session of its own: the request, where its handler stands (pc, "idle"
\* when none is in flight), and what the handler holds: the task row that
\* get_task found, the text the suggestion client returned and the primary
\* key of the inserted suggestion; the suggestion rows the flush of a delete
\* loaded through Task.suggestions
NoRequest == Request("none", None, 0, NoBody, 0, 0, NoProvider)

NotSuggesting == [request |-> NoRequest, pc |-> "idle", found |-> None, text |-> None,
                  sid |-> None]

NotDeleting == [request |-> NoRequest, pc |-> "idle", loaded |-> {}]

\* One request served from start to finish
Serve(request, moved) ==
  \E out \in {router(DB, request, moved)} :
  /\ UNCHANGED <<suggesting, deleting>>
  /\ req' = request
  /\ resp' = out.resp
  /\ users' = out.db.users
  /\ tasks' = out.db.tasks
  /\ heap' = out.db.heap
  /\ nextTaskId' = out.db.nextTaskId
  /\ suggestions' = out.db.suggestions
  /\ nextSuggestionId' = out.db.nextSuggestionId
  /\ created_at' = out.db.created_at
  /\ updated_at' = out.db.updated_at
  /\ now' = out.db.now

\* initialize_database: empty tables and the default user; no request yet
Init ==
  /\ users = {default_user_id}
  /\ tasks = [i \in {} |-> NoBody]
  /\ heap = <<>>
  /\ nextTaskId = 1
  /\ suggestions = [i \in {} |-> NoBody]
  /\ nextSuggestionId = 1
  /\ created_at = [i \in {} |-> None]
  /\ updated_at = [i \in {} |-> None]
  /\ now = 0
  /\ suggesting = NotSuggesting
  /\ deleting = NotDeleting
  /\ req = Request("none", None, 0, NoBody, 0, 0, NoProvider)
  /\ resp = error(DB, HTTP_200_OK).resp

----------------------------------------------------------------------------
(* The requests a client sends, drawn from the given sets.  A request that  *)
(* would take a primary-key sequence past its bound is not sent.            *)

CreateTask(headers, bodies, maxTasks) ==
  \E a \in headers, b \in bodies :
     /\ Serve(Request("create", a, 0, b, 0, 0, NoProvider), FALSE)
     /\ nextTaskId' <= maxTasks + 1

ReadTask(headers, ids) ==
  \E a \in headers, id \in ids :
     /\ Serve(Request("read", a, id, NoBody, 0, 0, NoProvider), FALSE)
     /\ req'.op = "read"

UpdateTask(headers, ids, bodies) ==
  \E a \in headers, id \in ids, b \in bodies, moved \in BOOLEAN :
     /\ Serve(Request("update", a, id, b, 0, 0, NoProvider), moved)
     /\ req'.op = "update"

DeleteTask(headers, ids) ==
  \E a \in headers, id \in ids :
     /\ Serve(Request("delete", a, id, NoBody, 0, 0, NoProvider), FALSE)
     /\ req'.op = "delete"

SuggestTask(headers, ids, providers, maxSuggestions) ==
  \E a \in headers, id \in ids, pr \in providers :
     /\ Serve(Request("suggest", a, id, NoBody, 0, 0, pr), FALSE)
     /\ nextSuggestionId' <= maxSuggestions + 1

ListTasks(headers, skips, limits) ==
  \E a \in headers, skip \in skips, limit \in limits :
     /\ Serve(Request("list", a, 0, NoBody, skip, limit, NoProvider), FALSE)
     /\ req'.op = "list"

\* create_task_suggestion up to its blocking call: the gate, then get_task
SuggestCheck(headers, ids, providers, maxSuggestions) ==
  /\ suggesting.pc = "idle"
  /\ nextSuggestionId <= maxSuggestions
  /\ \E a \in headers, id \in ids, pr \in providers :
       LET request == Request("suggest", a, id, NoBody, 0, 0, pr) IN
       IF verify_token(a) = HTTP_401_UNAUTHORIZED
       THEN /\ req' = request
            /\ resp' = error(DB, HTTP_401_UNAUTHORIZED).resp
            /\ UNCHANGED suggesting
       ELSE IF get_task(DB, id) = None
       THEN /\ req' = request
            /\ resp' = error(DB, HTTP_404_NOT_FOUND).resp
            /\ UNCHANGED suggesting
       ELSE /\ suggesting' = [request |-> request, pc |-> "call", found |-> Some(tasks[id]),
                              text |-> None, sid |-> None]
            /\ UNCHANGED <<req, resp>>
  /\ UNCHANGED <<store, now, deleting>>

\* generate_ai_suggestion returns (or raises) with the title and description
\* of the row that get_task loaded
SuggestCall ==
  /\ suggesting.pc = "call"
  /\ LET got == generate_ai_suggestion(Val(suggesting.found).title,
                                       Val(suggesting.found).description,
                                       suggesting.request.provider)
         ai == [raised |-> got.raised, value |-> got.value, called |-> TRUE]
     IN IF got.raised \/ got.value = None
        THEN /\ req' = suggesting.request
             /\ resp' = [error(DB, HTTP_500_INTERNAL_SERVER_ERROR).resp EXCEPT !.ai = ai]
             /\ suggesting' = [suggesting EXCEPT !.pc = "idle"]
        ELSE /\ suggesting' = [suggesting EXCEPT !.pc = "insert", !.text = got.value]
             /\ UNCHANGED <<req, resp>>
  /\ UNCHANGED <<store, now, deleting>>

\* create_ai_suggestion: db.add and db.commit against the store as it is now
SuggestInsert ==
  /\ suggesting.pc = "insert"
  /\ \E saved \in {create_ai_suggestion(DB, suggesting.text, suggesting.request.path_id)} :
       /\ suggestions' = saved.db.suggestions
       /\ nextSuggestionId' = saved.db.nextSuggestionId
       /\ IF saved.raised
          THEN /\ req' = suggesting.request
               /\ resp' = [error(DB, HTTP_500_INTERNAL_SERVER_ERROR).resp EXCEPT
                             !.ai = [raised |-> FALSE, value |-> suggesting.text,
                                     called |-> TRUE]]
               /\ suggesting' = [suggesting EXCEPT !.pc = "idle"]
          ELSE /\ suggesting' = [suggesting EXCEPT !.pc = "refresh", !.sid = saved.id]
               /\ UNCHANGED <<req, resp>>
  /\ UNCHANGED <<users, tasks, heap, nextTaskId, created_at, updated_at, now, deleting>>

\* create_ai_suggestion: db.refresh reads the inserted row back (and raises
\* when it is gone), then the route returns it
SuggestRefresh ==
  /\ suggesting.pc = "refresh"
  /\ req' = suggesting.request
  /\ resp' = IF Val(suggesting.sid) \in DOMAIN suggestions
             THEN [tasks |-> <<>>,
                   suggestions |-> <<suggestion_out(DB, Val(suggesting.sid))>>,
                   status_code |-> HTTP_201_CREATED,
                   ai |-> [raised |-> FALSE, value |-> suggesting.text, called |-> TRUE]]
             ELSE [error(DB, HTTP_500_INTERNAL_SERVER_ERROR).resp EXCEPT
                     !.ai = [raised |-> FALSE, value |-> suggesting.text, called |-> TRUE]]
  /\ suggesting' = [suggesting EXCEPT !.pc = "idle"]
  /\ UNCHANGED <<store, now, deleting>>

\* delete_existing_task up to db.delete: the gate, then get_task
DeleteCheck(headers, ids) ==
  /\ deleting.pc = "idle"
  /\ \E a \in headers, id \in ids :
       LET request == Request("delete", a, id, NoBody, 0, 0, NoProvider) IN
       IF verify_token(a) = HTTP_401_UNAUTHORIZED
       THEN /\ req' = request
            /\ resp' = error(DB, HTTP_401_UNAUTHORIZED).resp
            /\ UNCHANGED deleting
       ELSE IF get_task(DB, id) = None
       THEN /\ req' = request
            /\ resp' = error(DB, HTTP_404_NOT_FOUND).resp
            /\ UNCHANGED deleting
       ELSE /\ deleting' = [request |-> request, pc |-> "flush", loaded |-> {}]
            /\ UNCHANGED <<req, resp>>
  /\ UNCHANGED <<store, now, suggesting>>

\* db.commit of delete_task, first half: the flush loads Task.suggestions to
\* cascade the delete to them
DeleteFlush ==
  /\ deleting.pc = "flush"
  /\ deleting' = [deleting EXCEPT !.pc = "commit",
                                  !.loaded = suggestions_of(DB, deleting.request.path_id)]
  /\ UNCHANGED <<store, now, req, resp, suggesting>>

\* db.commit of delete_task, second half: DELETE of the loaded suggestions and
\* of the task, then COMMIT; a suggestion of the task that was not loaded
\* makes the store refuse the DELETE of the task and nothing is deleted
DeleteCommit ==
  /\ deleting.pc = "commit"
  /\ req' = deleting.request
  /\ \E out \in {IF suggestions_of(DB, deleting.request.path_id) \subseteq deleting.loaded
                  THEN delete_existing_task(DB, deleting.request.path_id)
                  ELSE error(DB, HTTP_500_INTERNAL_SERVER_ERROR)} :
       /\ resp' = out.resp
       /\ tasks' = out.db.tasks
       /\ heap' = out.db.heap
       /\ suggestions' = out.db.suggestions
       /\ created_at' = out.db.created_at
       /\ updated_at' = out.db.updated_at
  /\ deleting' = [deleting EXCEPT !.pc = "idle"]
  /\ UNCHANGED <<users, nextTaskId, nextSuggestionId, now, suggesting>>

(* Inputs *)

Secret == Some(<<"Bearer", " ", api_auth_token>>)

Wrong == Some(<<"Bearer", " ", "wrong">>)

Headers ==
  {None, Some(<<>>), Some(<<"Bearer">>), Secret, Wrong,
   Some(<<"bearer", " ", api_auth_token>>),
   Some(<<"Basic", " ", api_auth_token>>),
   Some(<<"Bearer", " ", api_auth_token, " ", "x">>)}

Fields == {"title", "description", "status", "assignee_id"}

\* a JSON body: the fields present and their values
Body(fs, t, d, st, a) ==
  [title |-> IF "title" \in fs THEN t ELSE None,
   assignee_id |-> IF "assignee_id" \in fs THEN a ELSE None,
   fields_set |-> fs,
   description |-> IF "description" \in fs THEN d ELSE None,
   status |-> IF "status" \in fs THEN st ELSE None]

\* the credential file: missing, unreadable, blank, holding a key
KeyFiles ==
  {[exists |-> FALSE, readable |-> FALSE, content |-> <<>>],
   [exists |-> TRUE, readable |-> FALSE, content |-> <<>>],
   [exists |-> TRUE, readable |-> TRUE, content |-> <<" ", "\n">>],
   [exists |-> TRUE, readable |-> TRUE, content |-> <<"sk-key", "\n">>]}

Calls == {"ok", "OpenAIError", "Exception"}

Contents == {None, Some(<<" ", "Split it up.", "\n">>)}

Providers ==
  [key_file : KeyFiles, content : Contents, construct_raises : BOOLEAN, call : Calls]

Unavailable == [NoProvider EXCEPT !.call = "OpenAIError"]

Answering ==
  [key_file |-> [exists |-> TRUE, readable |-> TRUE, content |-> <<"sk-key", "\n">>],
   content |-> Some(<<" ", "Split it up.", "\n">>), construct_raises |-> FALSE, call |-> "ok"]

----------------------------------------------------------------------------
(* Spec: every route, with and without the right token, plain bodies        *)

PlainCreate == Body({"title"}, Some("a"), None, None, None)

StatusDone == Body({"status"}, None, None, Some("done"), None)

NoSuchAssignee == Body({"assignee_id"}, None, None, None, Some(default_user_id + 1))

TaskIds == 1 .. MaxTasks + 1

RichTaskIds == 1 .. MaxRichTasks + 1

Create == CreateTask({Secret, Wrong}, {PlainCreate}, MaxTasks)

Read == ReadTask({Secret, Wrong}, TaskIds)

Update == UpdateTask({Secret, Wrong}, TaskIds, {StatusDone, NoSuchAssignee})

Delete == DeleteTask({Secret, Wrong}, TaskIds)

Suggest == SuggestTask({Secret, Wrong}, TaskIds, {Answering}, MaxSuggestions)

List == ListTasks({Secret, Wrong}, {0}, {MaxWindow})

Next == Create \/ Read \/ Update \/ Delete \/ Suggest \/ List

Spec == Init /\ [][Next]_vars

----------------------------------------------------------------------------
(* SpecAuth: every header on every route                                    *)

AuthCreate == CreateTask(Headers, {PlainCreate}, MaxRichTasks)

AuthRead == ReadTask(Headers, RichTaskIds)

AuthUpdate == UpdateTask(Headers, RichTaskIds, {StatusDone})

AuthDelete == DeleteTask(Headers, RichTaskIds)

AuthSuggest == SuggestTask(Headers, RichTaskIds, {Unavailable}, MaxRichSuggestions)

AuthList == ListTasks(Headers, {0}, {MaxWindow})

NextAuth == AuthCreate \/ AuthRead \/ AuthUpdate \/ AuthDelete \/ AuthSuggest \/ AuthList

SpecAuth == Init /\ [][NextAuth]_vars

----------------------------------------------------------------------------
(* SpecFields: create, update and delete with every shape of body           *)

AssigneeIds == {None, Some(0), Some(default_user_id), Some(default_user_id + 1)}

CreateBodies ==
  {Body({"title"}, Some("a"), None, None, None)}
  \cup {Body({"title", "status"}, Some("a"), None, st, None) :
          st \in {None, Some(""), Some("done")}}
  \cup {Body({"title", "assignee_id"}, Some("a"), None, None, a) : a \in AssigneeIds}
  \cup {Body({"title", "status", "assignee_id"}, Some("a"), None, st, a) :
          st \in {None, Some(""), Some("done")}, a \in AssigneeIds}

\* no field, one field (absent elsewhere), or all four fields at once
UpdateBodies ==
  {Body({}, None, None, None, None)}
  \cup {Body({"title"}, t, None, None, None) : t \in {None, Some("b")}}
  \cup {Body({"description"}, None, d, None, None) : d \in {None, Some("d")}}
  \cup {Body({"status"}, None, None, st, None) : st \in {None, Some("done")}}
  \cup {Body({"assignee_id"}, None, None, None, a) : a \in AssigneeIds}
  \cup {Body(Fields, Some("b"), Some("d"), Some("done"), Some(default_user_id)),
        Body(Fields, Some("b"), None, None, None)}

FieldsCreate == CreateTask({Secret}, CreateBodies, MaxRichTasks)

FieldsUpdate == UpdateTask({Secret}, RichTaskIds, UpdateBodies)

FieldsDelete == DeleteTask({Secret}, RichTaskIds)

NextFields == FieldsCreate \/ FieldsUpdate \/ FieldsDelete

SpecFields == Init /\ [][NextFields]_vars

----------------------------------------------------------------------------
(* SpecList: listing windows over tasks that are created, rewritten and     *)
(* deleted                                                                  *)

StatusPending == Body({"status"}, None, None, Some("pending"), None)

Windows == -1 .. MaxWindow

ListCreate == CreateTask({Secret}, {PlainCreate}, MaxTasks)

ListUpdate == UpdateTask({Secret}, TaskIds, {StatusDone, StatusPending})

ListDelete == DeleteTask({Secret}, TaskIds)

ListList == ListTasks({Secret}, Windows, Windows)

NextList == ListCreate \/ ListUpdate \/ ListDelete \/ ListList

SpecList == Init /\ [][NextList]_vars

----------------------------------------------------------------------------
(* SpecSuggest: the suggestion workflow under every provider behaviour      *)

SuggestCreate == CreateTask({Secret}, {PlainCreate}, MaxRichTasks)

SuggestDelete == DeleteTask({Secret}, RichTaskIds)

SuggestSuggest == SuggestTask({Secret}, RichTaskIds, Providers, MaxSuggestions)

NextSuggest == SuggestCreate \/ SuggestDelete \/ SuggestSuggest

SpecSuggest == Init /\ [][NextSuggest]_vars

----------------------------------------------------------------------------
(* SpecTime: time passes between requests that create, update (with a      *)
(* changing body, a body of equal values and an empty body) and delete      *)

\* the store's clock advances
Tick ==
  /\ now < MaxClock
  /\ now' = now + 1
  /\ UNCHANGED <<store, req, resp, suggesting, deleting>>

EmptyUpdate == Body({}, None, None, None, None)

TimeCreate == CreateTask({Secret}, {PlainCreate}, MaxRichTasks)

TimeUpdate == UpdateTask({Secret}, RichTaskIds, {StatusDone, StatusPending, EmptyUpdate})

TimeDelete == DeleteTask({Secret}, RichTaskIds)

NextTime == Tick \/ TimeCreate \/ TimeUpdate \/ TimeDelete

SpecTime == Init /\ [][NextTime]_vars

----------------------------------------------------------------------------
(* SpecTitle: create and update with a title that is a word, the empty      *)
(* string, null or absent                                                   *)

Titles == {None, Some(""), Some("a"), Some("b")}

TitleCreateBodies ==
  {Body({"title"}, t, None, None, None) : t \in Titles}
  \cup {Body({}, None, None, None, None)}

TitleUpdateBodies ==
  {Body({"title"}, t, None, None, None) : t \in Titles}

TitleCreate == CreateTask({Secret}, TitleCreateBodies, MaxTasks)

TitleRead == ReadTask({Secret}, TaskIds)

TitleUpdate == UpdateTask({Secret}, TaskIds, TitleUpdateBodies)

TitleDelete == DeleteTask({Secret}, TaskIds)

NextTitle == TitleCreate \/ TitleRead \/ TitleUpdate \/ TitleDelete

SpecTitle == Init /\ [][NextTitle]_vars

----------------------------------------------------------------------------
(* SpecRace: an attach-suggestion request and a delete request in flight at *)
(* the same time, their steps interleaved in every order                    *)

RaceCreate == CreateTask({Secret}, {PlainCreate}, MaxTasks)

RaceSuggestCheck == SuggestCheck({Secret}, TaskIds, {Answering, Unavailable}, MaxSuggestions)

RaceDeleteCheck == DeleteCheck({Secret}, TaskIds)

NextRace ==
  \/ RaceCreate
  \/ RaceSuggestCheck
  \/ SuggestCall
  \/ SuggestInsert
  \/ SuggestRefresh
  \/ RaceDeleteCheck
  \/ DeleteFlush
  \/ DeleteCommit

SpecRace == Init /\ [][NextRace]_vars

----------------------------------------------------------------------------
(* Properties *)

TaskOps == {"create", "list", "read", "update", "delete", "suggest"}

Authorized(request) == verify_token(request.authorization) = HTTP_200_OK

\* the words of a header, for the properties
Words(h) == split(Val(h))

\* C1 as stated: a header that is missing, is not exactly two words with the
\* scheme Bearer, or carries another token than the secret, gets 401 on every
\* task route and the store is unchanged; the right token lets the route run.
C1_AsStated ==
  [][req'.op \in TaskOps =>
       IF \/ req'.authorization = None
          \/ Len(Words(req'.authorization)) # 2
          \/ Words(req'.authorization)[1] # "Bearer"
          \/ Words(req'.authorization)[2] # api_auth_token
       THEN resp'.status_code = HTTP_401_UNAUTHORIZED /\ store' = store
       ELSE resp'.status_code # HTTP_401_UNAUTHORIZED]_vars

\* C1 (amended): the scheme word is compared without regard to case.  A header
\* that is missing, is not exactly two words, has a scheme other than
\* bearer/Bearer/BEARER, or carries another token than the secret gets 401 on
\* every task route and leaves users, tasks and suggestions unchanged; any
\* other header lets the route run: no 401, and a create stores its task.
C1_Gate ==
  [][req'.op \in TaskOps =>
       IF \/ req'.authorization = None
          \/ Len(Words(req'.authorization)) # 2
          \/ Words(req'.authorization)[1] \notin {"Bearer", "bearer", "BEARER"}
          \/ Words(req'.authorization)[2] # api_auth_token
       THEN resp'.status_code = HTTP_401_UNAUTHORIZED /\ store' = store
       ELSE /\ resp'.status_code # HTTP_401_UNAUTHORIZED
            /\ req'.op = "create" =>
                 /\ resp'.status_code = HTTP_201_CREATED
                 /\ DOMAIN tasks' = DOMAIN tasks \cup {nextTaskId}]_vars

\* a suggestion request with a wrong token was refused while a task existed
C1_Witness ==
  /\ req.op = "suggest"
  /\ req.authorization = Wrong
  /\ req.path_id \in DOMAIN tasks
  /\ resp.status_code = HTTP_401_UNAUTHORIZED

\* C5: read, update, delete and attach-suggestion addressed to a task id that
\* does not exist answer 404, leave the whole store as it was, and do not call
\* the suggestion client.
C5_NotFound ==
  [][(/\ req'.op \in {"read", "update", "delete", "suggest"}
      /\ Authorized(req')
      /\ req'.path_id \notin DOMAIN tasks)
     => /\ resp'.status_code = HTTP_404_NOT_FOUND
        /\ store' = store
        /\ ~resp'.ai.called]_vars

\* a delete of a missing task was answered 404 while another task and its
\* suggestion were in the store
C5_Witness ==
  /\ req.op = "delete"
  /\ Authorized(req)
  /\ req.path_id \notin DOMAIN tasks
  /\ resp.status_code = HTTP_404_NOT_FOUND
  /\ DOMAIN tasks # {}
  /\ DOMAIN suggestions # {}

\* C6: deleting an existing task removes the task and all of its suggestions
\* and leaves every other task, the other tasks' suggestions and the users
\* unchanged.
C6_DeleteCascade ==
  [][(/\ req'.op = "delete"
      /\ Authorized(req')
      /\ req'.path_id \in DOMAIN tasks)
     => /\ resp'.status_code = HTTP_204_NO_CONTENT
        /\ DOMAIN tasks' = DOMAIN tasks \ {req'.path_id}
        /\ \A t \in DOMAIN tasks' : tasks'[t] = tasks[t]
        /\ {s \in DOMAIN suggestions' : suggestions'[s].task_id = req'.path_id} = {}
        /\ DOMAIN suggestions' =
             {s \in DOMAIN suggestions : suggestions[s].task_id # req'.path_id}
        /\ \A s \in DOMAIN suggestions' : suggestions'[s] = suggestions[s]
        /\ users' = users]_vars

\* a task was deleted together with a suggestion while another task kept its own
C6_Witness ==
  /\ req.op = "delete"
  /\ resp.status_code = HTTP_204_NO_CONTENT
  /\ DOMAIN tasks # {}
  /\ DOMAIN suggestions # {}
  /\ nextTaskId = 3
  /\ nextSuggestionId = 3
  /\ Cardinality(DOMAIN suggestions) = 1

\* the request names an assignee: the field is present and not null
NamesAssignee(request) ==
  "assignee_id" \in request.body.fields_set /\ request.body.assignee_id # None

\* C2: a create request naming an assignee id that is not the id of a user
\* (whatever the integer, 0 included) answers 404 and leaves the set of tasks
\* as it was.
C2_AsStated ==
  [][(/\ req'.op = "create"
      /\ Authorized(req')
      /\ NamesAssignee(req')
      /\ Val(req'.body.assignee_id) \notin users)
     => /\ resp'.status_code = HTTP_404_NOT_FOUND
        /\ tasks' = tasks]_vars

\* C3: after every request each task's assignee_id is null or the id of a
\* user; an update naming an assignee that is not a user answers 404 and
\* leaves the tasks as they were; an update of an existing task with
\* assignee_id explicitly null (and no null title) unassigns the task.
C3_AssigneeExists ==
  [][/\ \A t \in DOMAIN tasks' :
           tasks'[t].assignee_id = None \/ Val(tasks'[t].assignee_id) \in users'
     /\ (/\ req'.op = "update"
         /\ Authorized(req')
         /\ NamesAssignee(req')
         /\ Val(req'.body.assignee_id) \notin users)
        => /\ resp'.status_code = HTTP_404_NOT_FOUND
           /\ tasks' = tasks
     /\ (/\ req'.op = "update"
         /\ Authorized(req')
         /\ req'.path_id \in DOMAIN tasks
         /\ "assignee_id" \in req'.body.fields_set
         /\ req'.body.assignee_id = None
         /\ ~("title" \in req'.body.fields_set /\ req'.body.title = None))
        => /\ resp'.status_code = HTTP_200_OK
           /\ tasks'[req'.path_id].assignee_id = None]_vars

\* an assigned task was asked to take user 0 as assignee: refused, still assigned
C3_Witness ==
  /\ req.op = "update"
  /\ req.body.assignee_id = Some(0)
  /\ req.path_id \in DOMAIN tasks
  /\ tasks[req.path_id].assignee_id = Some(default_user_id)
  /\ resp.status_code = HTTP_404_NOT_FOUND

\* the update passes the route's assignee check and addresses an existing task
UpdateAccepted(request) ==
  /\ request.op = "update"
  /\ Authorized(request)
  /\ request.path_id \in DOMAIN tasks
  /\ ~NamesAssignee(request) \/ Val(request.body.assignee_id) \in users

\* C4 as stated: an update of an existing task sets every field present in
\* the body to the body's value, null included, for title, description,
\* status and assignee_id alike, and keeps every absent field.
C4_AsStated ==
  [][UpdateAccepted(req') =>
       \A f \in Fields :
          tasks'[req'.path_id][f] =
            IF f \in req'.body.fields_set THEN req'.body[f] ELSE tasks[req'.path_id][f]]_vars

\* C4 (amended): an update of an existing task that carries no null title
\* succeeds and sets every field present in the body to the body's value
\* (null included, for description, status and assignee_id), keeps every
\* absent field and every other task; an update whose body carries title
\* null fails (500) and changes no task.
C4_PartialUpdate ==
  [][UpdateAccepted(req') =>
       IF "title" \in req'.body.fields_set /\ req'.body.title = None
       THEN resp'.status_code = HTTP_500_INTERNAL_SERVER_ERROR /\ tasks' = tasks
       ELSE /\ resp'.status_code = HTTP_200_OK
            /\ DOMAIN tasks' = DOMAIN tasks
            /\ \A t \in DOMAIN tasks \ {req'.path_id} : tasks'[t] = tasks[t]
            /\ \A f \in Fields :
                 tasks'[req'.path_id][f] =
                   IF f \in req'.body.fields_set THEN req'.body[f]
                   ELSE tasks[req'.path_id][f]]_vars

\* a body of only status null was applied to a task that keeps its
\* description and its assignee
C4_Witness ==
  /\ req.op = "update"
  /\ req.body.fields_set = {"status"}
  /\ req.body.status = None
  /\ resp.status_code = HTTP_200_OK
  /\ tasks[req.path_id].status = None
  /\ tasks[req.path_id].description = Some("d")
  /\ tasks[req.path_id].assignee_id = Some(default_user_id)
  /\ tasks[req.path_id].title = Some("b")

\* C9: a successful create stores status "pending" exactly when the body gives
\* no status (absent or null) and the given string otherwise; without an
\* assignee the task has assignee_id null and assignee null; the returned
\* entity carries an id no task had before.
C9_AsStated ==
  [][(req'.op = "create" /\ Authorized(req') /\ resp'.status_code = HTTP_201_CREATED)
     => LET out == resp'.tasks[1] IN
        /\ out.id \notin DOMAIN tasks
        /\ out.id \in DOMAIN tasks'
        /\ tasks'[out.id].status =
             IF "status" \in req'.body.fields_set /\ req'.body.status # None
             THEN req'.body.status ELSE Some("pending")
        /\ out.status = tasks'[out.id].status
        /\ ~NamesAssignee(req') =>
             /\ tasks'[out.id].assignee_id = None
             /\ out.assignee_id = None
             /\ out.assignee = None]_vars

\* the ids of a set of rows in increasing order
RECURSIVE IdOrder(_)
IdOrder(ids) ==
  IF ids = {} THEN <<>>
  ELSE LET least == CHOOSE i \in ids : \A j \in ids : i <= j
       IN <<least>> \o IdOrder(ids \ {least})

\* C8: listing with skip s and limit l (both at least 0) over n tasks answers
\* the tasks at positions s+1 .. s+l of the id order, in that order:
\* min(l, max(0, n - s)) of them, none filtered out.
C8_AsStated ==
  [][(req'.op = "list" /\ Authorized(req') /\ req'.skip >= 0 /\ req'.limit >= 0)
     => LET order == IdOrder(DOMAIN tasks)
            n == Len(order)
            last == IF req'.skip + req'.limit < n THEN req'.skip + req'.limit ELSE n
        IN /\ resp'.status_code = HTTP_200_OK
           /\ [k \in DOMAIN resp'.tasks |-> resp'.tasks[k].id]
                = SubSeq(order, req'.skip + 1, last)]_vars

\* the credential file yields no key: missing, unreadable or blank
NoCredential(provider) ==
  \/ ~provider.key_file.exists
  \/ ~provider.key_file.readable
  \/ \A k \in DOMAIN provider.key_file.content : provider.key_file.content[k] \in Whitespace

\* C10: generate_ai_suggestion never raises and never returns None, whatever
\* the credential file and the provider do (a failing client constructor
\* included); no credential, a provider error and any other exception give
\* three different fallback strings.
C10_AsStated ==
  (req.op = "suggest" /\ resp.ai.called)
  => /\ ~resp.ai.raised
     /\ resp.ai.value # None
     /\ NoCredential(req.provider) => resp.ai.value = Some(FALLBACK_UNAVAILABLE)
     /\ (~NoCredential(req.provider) /\ req.provider.call = "OpenAIError")
          => resp.ai.value = Some(FALLBACK_API_ERROR)
     /\ (~NoCredential(req.provider) /\ req.provider.call = "Exception")
          => resp.ai.value = Some(FALLBACK_UNEXPECTED)
     /\ FALLBACK_UNAVAILABLE # FALLBACK_API_ERROR
     /\ FALLBACK_UNAVAILABLE # FALLBACK_UNEXPECTED
     /\ FALLBACK_API_ERROR # FALLBACK_UNEXPECTED

\* C7: attach-suggestion on an existing task answers 201 and stores exactly
\* one new suggestion, linked to that task, whose text is what the suggestion
\* client returned, whatever the provider did; it never answers 500.
C7_AsStated ==
  [][(req'.op = "suggest" /\ Authorized(req') /\ req'.path_id \in DOMAIN tasks)
     => /\ resp'.status_code = HTTP_201_CREATED
        /\ \E new \in DOMAIN suggestions' \ DOMAIN suggestions :
              /\ DOMAIN suggestions' = DOMAIN suggestions \cup {new}
              /\ suggestions'[new].task_id = req'.path_id
              /\ suggestions'[new].suggestion_text = resp'.ai.value
              /\ resp'.suggestions = <<suggestion_out(DB', new)>>
        /\ \A s \in DOMAIN suggestions : suggestions'[s] = suggestions[s]]_vars

\* C11 as stated: a task's created_at is set when the task is created and
\* never changes; its updated_at is set to the current time by creation and
\* by every successful update request, also one whose body has no field or
\* only values equal to the stored ones.
C11_AsStated ==
  [][now' = now
     => /\ \A t \in DOMAIN tasks \cap DOMAIN tasks' : created_at'[t] = created_at[t]
        /\ \A t \in DOMAIN tasks' \ DOMAIN tasks :
              created_at'[t] = Some(now) /\ updated_at'[t] = Some(now)
        /\ (req'.op = "update" /\ resp'.status_code = HTTP_200_OK)
             => updated_at'[req'.path_id] = Some(now)]_vars

\* C11: a task's created_at is set to the current time when the task is
\* created and never changes; its updated_at is null after creation, is set
\* to the current time by a successful update request that changes the value
\* of at least one stored field, and is left as it was by a successful update
\* whose body has no field or only values equal to the stored ones and by
\* every request on another task.
C11_Timestamps ==
  [][now' = now
     => /\ \A t \in DOMAIN tasks \cap DOMAIN tasks' : created_at'[t] = created_at[t]
        /\ \A t \in DOMAIN tasks' \ DOMAIN tasks :
              created_at'[t] = Some(now) /\ updated_at'[t] = None
        /\ \A t \in DOMAIN tasks \cap DOMAIN tasks' :
              updated_at'[t] = IF /\ req'.op = "update"
                                  /\ req'.path_id = t
                                  /\ resp'.status_code = HTTP_200_OK
                                  /\ tasks'[t] # tasks[t]
                               THEN Some(now)
                               ELSE updated_at[t]]_vars

\* a changing update served after the clock moved on from the creation
C11_Witness ==
  /\ req.op = "update"
  /\ resp.status_code = HTTP_200_OK
  /\ req.path_id \in DOMAIN tasks
  /\ updated_at[req.path_id] = Some(now)
  /\ created_at[req.path_id] # Some(now)

\* C12: every stored task has a title that is a non-empty string, whatever
\* title (empty and null included) the create and update requests carried.
C12_AsStated ==
  \A t \in DOMAIN tasks : tasks[t].title # None /\ Val(tasks[t].title) # ""

\* C13: under every interleaving of an attach-suggestion request with a
\* delete request, every stored suggestion references a stored task; an
\* insert that comes after the task was deleted stores nothing and the attach
\* request answers 500; an attach request that answers 201 returns a
\* suggestion that is in the store, linked to its task.
C13_NoOrphan ==
  [][/\ \A s \in DOMAIN suggestions' : suggestions'[s].task_id \in DOMAIN tasks'
     /\ (suggesting.pc = "insert" /\ suggesting'.pc # "insert"
          /\ suggesting.request.path_id \notin DOMAIN tasks)
        => /\ suggestions' = suggestions
           /\ req' = suggesting.request
           /\ resp'.status_code = HTTP_500_INTERNAL_SERVER_ERROR
     /\ (suggesting.pc # "idle" /\ suggesting'.pc = "idle"
          /\ resp'.status_code = HTTP_201_CREATED)
        => \E s \in DOMAIN suggestions' :
              /\ resp'.suggestions = <<suggestion_out(DB', s)>>
              /\ suggestions'[s].task_id = req'.path_id
              /\ req'.path_id \in DOMAIN tasks']_vars

\* an attach request found its task, got a text, and failed at the insert
\* because the task had been deleted in between: nothing is stored
C13_Witness ==
  /\ req = suggesting.request
  /\ suggesting.pc = "idle"
  /\ suggesting.text # None
  /\ suggesting.sid = None
  /\ resp.status_code = HTTP_500_INTERNAL_SERVER_ERROR
  /\ req.path_id \notin DOMAIN tasks
  /\ DOMAIN suggestions = {}

====
